---- MODULE Spec2Model ----
(***************************************************************************)
(* Model of get_features (02_feature_engineering.py), the window feature   *)
(* aggregator of the propensity workflow, and of the cell of               *)
(* 01_data_prep.py that creates the adjusted transactions.                 *)
(*                                                                         *)
(* Days are day numbers (01_data_prep.py turns the integer day d of the    *)
(* raw data into the date 2018-01-01 + (d-1); a date difference in days is *)
(* the difference of the day numbers).  Money is counted in whole cents.   *)
(* A Spark double is modelled by the exact rational <<n, d>> in lowest     *)
(* terms, and SQL NULL by the empty tuple.  A table is a set of rows.      *)
(***************************************************************************)
EXTENDS Integers, Sequences, FiniteSets, TLC

VARIABLES
  df,            \* the transaction set the notebook passes to get_features
  transactions,  \* the notebook-global table named `transactions`
  last,          \* the outcome of the most recent call of get_features
  transactions_raw,  \* the raw table `transactions` of 01_data_prep.py
  transactions_adj   \* the table transactions_adj of 01_data_prep.py

vars == <<df, transactions, last, transactions_raw, transactions_adj>>

(***************************************************************************)
(* Bounds of the model.                                                    *)
(***************************************************************************)
NumHouseholds == 2
MaxRows == 2
DayLast == 400

(***************************************************************************)
(* Values.                                                                 *)
(***************************************************************************)
Null == << >>

RECURSIVE GCD(_, _)
GCD(a, b) == IF b = 0 THEN a ELSE GCD(b, a % b)

Abs(n) == IF n < 0 THEN 0 - n ELSE n

\* n/d as a double, d > 0
Dbl(n, d) == LET g == GCD(Abs(n), d) IN <<n \div g, d \div g>>

\* cast(c as double) of an integer-valued or rational column value
CastDouble(v) == IF v = Null THEN Null ELSE Dbl(v[1], v[2])

\* Spark SQL a/b: NULL when an operand is NULL or the divisor is 0
Divide(a, b) ==
  IF a = Null \/ b = Null THEN Null
  ELSE IF b[1] = 0 THEN Null
  ELSE IF b[1] < 0 THEN Dbl((0 - a[1]) * b[2], a[2] * (0 - b[1]))
  ELSE Dbl(a[1] * b[2], a[2] * b[1])

Whole(n) == <<n, 1>>

\* Spark SQL COALESCE(a, b), a - b and -1 * a over whole amounts
Coalesce(a, b) == IF a = Null THEN b ELSE a
Minus(a, b) == IF a = Null \/ b = Null THEN Null ELSE Whole(a[1] - b[1])
Negate(a) == IF a = Null THEN Null ELSE Whole(0 - a[1])

(***************************************************************************)
(* The transaction rows the model draws its tables from.                   *)
(***************************************************************************)
Households == 1..NumHouseholds

SampleDays ==
  {DayLast - 365, DayLast - 364, DayLast - 30, DayLast - 29, DayLast}

\* the products on sale: one of commodity 1, sold at list price, and one of
\* commodity 2, sold with an in-store and a campaign-coupon discount; both with
\* amount_paid = amount_list - instore_discount - total_coupon_discount
Products ==
  { [product_id |-> 11, commodity_desc |-> 1,
     amount_list |-> 4, instore_discount |-> 0, campaign_coupon_discount |-> 0,
     manuf_coupon_discount |-> 0, total_coupon_discount |-> 0, amount_paid |-> 4],
    [product_id |-> 21, commodity_desc |-> 2,
     amount_list |-> 6, instore_discount |-> 1, campaign_coupon_discount |-> 2,
     manuf_coupon_discount |-> 0, total_coupon_discount |-> 2, amount_paid |-> 3] }

\* the line item of household h buying product p on day d
Row(h, p, d) ==
  [household_key |-> h, commodity_desc |-> p.commodity_desc, day |-> d,
   basket_id |-> 1000 * h + d, product_id |-> p.product_id,
   amount_list |-> p.amount_list,
   instore_discount |-> p.instore_discount,
   campaign_coupon_discount |-> p.campaign_coupon_discount,
   manuf_coupon_discount |-> p.manuf_coupon_discount,
   total_coupon_discount |-> p.total_coupon_discount,
   amount_paid |-> p.amount_paid]

AllRows ==
  { Row(h, p, d) : h \in Households, p \in Products, d \in SampleDays }

RECURSIVE TablesUpTo(_, _)
TablesUpTo(R, n) ==
  IF n = 0 THEN {{}}
  ELSE LET T == TablesUpTo(R, n - 1)
       IN T \cup { t \cup {r} : t \in T, r \in R }

\* a product of commodity 2 bought with a manufacturer coupon of 2 matched by
\* the retailer with 1: the columns transactions_adj gives a sale of 10
CouponProduct ==
  [product_id |-> 22, commodity_desc |-> 2,
   amount_list |-> 13, instore_discount |-> 0, campaign_coupon_discount |-> 0,
   manuf_coupon_discount |-> 2, total_coupon_discount |-> 1, amount_paid |-> 10]

\* the line item of household h buying product p on day d in its b-th basket
\* of that day
BasketRow(h, p, d, b) ==
  [Row(h, p, d) EXCEPT !.basket_id = (10000 * h + 10 * d) + b]

\* the purchases a household may make: on the last day product 11 and product
\* 21 in one basket and product 22 in a second one; product 21 also 30 and 364
\* days earlier, and product 11 335 days earlier
Purchases ==
  LET p11 == CHOOSE p \in Products : p.product_id = 11
      p21 == CHOOSE p \in Products : p.product_id = 21
  IN { <<p11, DayLast, 1>>, <<p21, DayLast, 1>>, <<CouponProduct, DayLast, 2>>,
       <<p21, DayLast - 30, 1>>, <<p21, DayLast - 364, 1>>,
       <<p11, DayLast - 335, 1>> }

BasketRows ==
  { BasketRow(h, v[1], v[2], v[3]) : h \in Households, v \in Purchases }

(***************************************************************************)
(* 01_data_prep.py: the adjusted transactions.                             *)
(***************************************************************************)
\* the raw line items: a sale of 0, 5 or 10 with a retail discount of 0 or 1,
\* a coupon discount of 0 or 2 and a coupon-match discount of 0 or 1 (the raw
\* data records discounts as negative amounts)
RawRows ==
  { [household_key |-> 1, basket_id |-> 1000 + DayLast, day |-> DayLast,
     product_id |-> 11, quantity |-> 1,
     sales_value |-> Whole(s), retail_disc |-> Whole(r),
     coupon_disc |-> Whole(c), coupon_match_disc |-> Whole(m)] :
    s \in {0, 5, 10}, r \in {0, -1}, c \in {0, -2}, m \in {0, -1} }

\* the inner SELECT of CREATE TABLE transactions_adj over one raw row
Adjusted(r) ==
  [household_key |-> r.household_key, basket_id |-> r.basket_id,
   day |-> r.day, product_id |-> r.product_id,
   amount_list |->
     Coalesce(Minus(Minus(Minus(r.sales_value, r.retail_disc), r.coupon_disc),
                    r.coupon_match_disc), Whole(0)),
   campaign_coupon_discount |->
     IF Coalesce(r.coupon_match_disc, Whole(0)) = Whole(0)
     THEN Negate(Coalesce(r.coupon_disc, Whole(0))) ELSE Whole(0),
   manuf_coupon_discount |->
     IF Coalesce(r.coupon_match_disc, Whole(0)) # Whole(0)
     THEN Negate(Coalesce(r.coupon_disc, Whole(0))) ELSE Whole(0),
   manuf_coupon_match_discount |-> Negate(Coalesce(r.coupon_match_disc, Whole(0))),
   total_coupon_discount |->
     Negate(Coalesce(Minus(r.coupon_disc, r.coupon_match_disc), Whole(0))),
   instore_discount |-> Coalesce(Negate(r.retail_disc), Whole(0)),
   amount_paid |-> Coalesce(r.sales_value, Whole(0)),
   units |-> r.quantity]

Windows == {"30d", "60d", "90d", "1yr"}
NoWindow == "None"
WindowArgs == Windows \cup {NoWindow, "45d"}

(***************************************************************************)
(* Spark aggregate functions over the rows g of one group.                 *)
(***************************************************************************)
Max(S) == CHOOSE x \in S : \A y \in S : y <= x
Min(S) == CHOOSE x \in S : \A y \in S : x <= y

\* the rows of g the expression `case when <cond> > 0 then ... else null end`
\* keeps (cond = "" for a plain column)
When(g, cond) == IF cond = "" THEN g ELSE { r \in g : r[cond] > 0 }

\* variant of CountDistinct: the rows with a discount are counted, not their
\* distinct values
CountDistinct_rows(g, field, cond) ==
  IF cond = "" THEN Whole(Cardinality({ r[field] : r \in g }))
  ELSE Whole(Cardinality(When(g, cond)))

\* f.countDistinct: the number of distinct non-null values
CountDistinct(g, field, cond) == Whole(Cardinality({ r[field] : r \in When(g, cond) }))

\* f.count(column): the number of rows whose column is not null (no row of the
\* model has a null product_id)
Count(g, field) == Whole(Cardinality(g))

\* f.count('*')
CountAll(g) == Whole(Cardinality(g))

RECURSIVE Total(_, _)
Total(g, field) ==
  IF g = {} THEN 0
  ELSE LET r == CHOOSE x \in g : TRUE IN r[field] + Total(g \ {r}, field)

\* f.sum(column): NULL over no rows
Sum(g, field) == IF g = {} THEN Null ELSE Whole(Total(g, field))

\* f.sum(case when <cond> > 0 then 1 else null end): NULL when no row qualifies
SumOneWhen(g, cond) ==
  IF When(g, cond) = {} THEN Null ELSE Whole(Cardinality(When(g, cond)))

(***************************************************************************)
(* get_features, step by step.                                             *)
(***************************************************************************)
grouping_fields(include_commodity) ==
  IF include_commodity THEN <<"household_key", "commodity_desc">>
  ELSE <<"household_key">>

grouping_suffix(include_commodity) == IF include_commodity THEN "_cmd" ELSE ""

\* the values of the grouping fields of row r
GroupKey(r, include_commodity) ==
  [i \in 1..Len(grouping_fields(include_commodity)) |->
     r[grouping_fields(include_commodity)[i]]]

\* transactions.select(grouping_fields).distinct(): reads the notebook global
anchor_df(include_commodity) ==
  { GroupKey(r, include_commodity) : r \in transactions }

\* variant of min_max_day: day 0 stands in for the bounds of a df without rows
min_max_day_defaulted(d) ==
  IF d = {} THEN <<0, 0>>
  ELSE <<Min({ r.day : r \in d }), Max({ r.day : r \in d })>>

\* df.groupBy().agg(min('day'), max('day')).collect()[0]: (None, None) over no rows
min_max_day(d) ==
  IF d = {} THEN Null
  ELSE <<Min({ r.day : r \in d }), Max({ r.day : r \in d })>>

window_suffix(window) == "_" \o window

\* variant of adjust_days: the '1yr' window starts 365 days before the last day
adjust_days_full_year(window, max_day) ==
  IF window = "30d" THEN [min_day |-> max_day - (30 - 1), max_day |-> max_day]
  ELSE IF window = "60d" THEN [min_day |-> max_day - (60 - 1), max_day |-> max_day]
  ELSE IF window = "90d" THEN [min_day |-> max_day - (90 - 1), max_day |-> max_day]
  ELSE [min_day |-> max_day - 365,
        max_day |-> (max_day - 365) + (30 - 1)]

\* the if/elif chain on `window`: the day range [min_day, max_day] of the window
adjust_days(window, max_day) ==
  IF window = "30d" THEN [min_day |-> max_day - (30 - 1), max_day |-> max_day]
  ELSE IF window = "60d" THEN [min_day |-> max_day - (60 - 1), max_day |-> max_day]
  ELSE IF window = "90d" THEN [min_day |-> max_day - (90 - 1), max_day |-> max_day]
  ELSE [min_day |-> max_day - (365 - 1),
        max_day |-> (max_day - (365 - 1)) + (30 - 1)]

\* variant of unknown_window: the default window=None is let through
unknown_window_default_allowed(window) ==
  window \notin {"30d", "60d", "90d", "1yr", "None"}

\* the else branch of the chain is taken: raise Exception('unknown window definition')
unknown_window(window) == window \notin {"30d", "60d", "90d", "1yr"}

\* the aggregates of .agg(...) over the rows g of one group
Aggregates(g) ==
  [ days |-> CountDistinct(g, "day", ""),
    baskets |-> CountDistinct(g, "basket_id", ""),
    products |-> Count(g, "product_id"),
    line_items |-> CountAll(g),
    amount_list |-> Sum(g, "amount_list"),
    instore_discount |-> Sum(g, "instore_discount"),
    campaign_coupon_discount |-> Sum(g, "campaign_coupon_discount"),
    manuf_coupon_discount |-> Sum(g, "manuf_coupon_discount"),
    total_coupon_discount |-> Sum(g, "total_coupon_discount"),
    amount_paid |-> Sum(g, "amount_paid"),
    days_with_instore_discount |-> CountDistinct(g, "day", "instore_discount"),
    days_with_campaign_coupon_discount |-> CountDistinct(g, "day", "campaign_coupon_discount"),
    days_with_manuf_coupon_discount |-> CountDistinct(g, "day", "manuf_coupon_discount"),
    days_with_total_coupon_discount |-> CountDistinct(g, "day", "total_coupon_discount"),
    baskets_with_instore_discount |-> CountDistinct(g, "basket_id", "instore_discount"),
    baskets_with_campaign_coupon_discount |-> CountDistinct(g, "basket_id", "campaign_coupon_discount"),
    baskets_with_manuf_coupon_discount |-> CountDistinct(g, "basket_id", "manuf_coupon_discount"),
    baskets_with_total_coupon_discount |-> CountDistinct(g, "basket_id", "total_coupon_discount"),
    products_with_instore_discount |-> CountDistinct(g, "product_id", "instore_discount"),
    products_with_campaign_coupon_discount |-> CountDistinct(g, "product_id", "campaign_coupon_discount"),
    products_with_manuf_coupon_discount |-> CountDistinct(g, "product_id", "manuf_coupon_discount"),
    products_with_total_coupon_discount |-> CountDistinct(g, "product_id", "total_coupon_discount"),
    line_items_with_instore_discount |-> SumOneWhen(g, "instore_discount"),
    line_items_with_campaign_coupon_discount |-> SumOneWhen(g, "campaign_coupon_discount"),
    line_items_with_manuf_coupon_discount |-> SumOneWhen(g, "manuf_coupon_discount"),
    line_items_with_total_coupon_discount |-> SumOneWhen(g, "total_coupon_discount") ]

\* summary metrics and ratios of one group: the .agg(...) and the withColumn chain
SummaryRow(g, window, days_in_window) ==
  LET a == Aggregates(g)
  IN a @@
     ( ("products_per_day" \o window_suffix(window)) :> Divide(a.products, a.days) ) @@
     [ baskets_per_day |-> Divide(a.baskets, a.days),
       line_items_per_day |-> Divide(a.line_items, a.days),
       amount_list_per_day |-> Divide(a.amount_list, a.days),
       instore_discount_per_day |-> Divide(a.instore_discount, a.days),
       campaign_coupon_discount_per_day |-> Divide(a.campaign_coupon_discount, a.days),
       manuf_coupon_discount_per_day |-> Divide(a.manuf_coupon_discount, a.days),
       total_coupon_discount_per_day |-> Divide(a.total_coupon_discount, a.days),
       amount_paid_per_day |-> Divide(a.amount_paid, a.days),
       days_with_instore_discount_per_days |-> Divide(a.days_with_instore_discount, a.days),
       days_with_campaign_coupon_discount_per_days |-> Divide(a.days_with_campaign_coupon_discount, a.days),
       days_with_manuf_coupon_discount_per_days |-> Divide(a.days_with_manuf_coupon_discount, a.days),
       days_with_total_coupon_discount_per_days |-> Divide(a.days_with_total_coupon_discount, a.days),
       days_to_days_in_set |-> Divide(a.days, Whole(days_in_window)),
       baskets_per_days_in_set |-> Divide(a.baskets, Whole(days_in_window)),
       products_to_days_in_set |-> Divide(a.products, Whole(days_in_window)),
       line_items_per_days_in_set |-> Divide(a.line_items, Whole(days_in_window)),
       amount_list_per_days_in_set |-> Divide(a.amount_list, Whole(days_in_window)),
       instore_discount_per_days_in_set |-> Divide(a.instore_discount, Whole(days_in_window)),
       campaign_coupon_discount_per_days_in_set |-> Divide(a.campaign_coupon_discount, Whole(days_in_window)),
       manuf_coupon_discount_per_days_in_set |-> Divide(a.manuf_coupon_discount, Whole(days_in_window)),
       total_coupon_discount_per_days_in_set |-> Divide(a.total_coupon_discount, Whole(days_in_window)),
       amount_paid_per_days_in_set |-> Divide(a.amount_paid, Whole(days_in_window)),
       days_with_instore_discount_per_days_in_set |-> Divide(a.days_with_instore_discount, Whole(days_in_window)),
       days_with_campaign_coupon_discount_per_days_in_set |-> Divide(a.days_with_campaign_coupon_discount, Whole(days_in_window)),
       days_with_manuf_coupon_discount_per_days_in_set |-> Divide(a.days_with_manuf_coupon_discount, Whole(days_in_window)),
       days_with_total_coupon_discount_per_days_in_set |-> Divide(a.days_with_total_coupon_discount, Whole(days_in_window)),
       products_per_basket |-> Divide(a.products, a.baskets),
       line_items_per_basket |-> Divide(a.line_items, a.baskets),
       amount_list_per_basket |-> Divide(a.amount_list, a.baskets),
       instore_discount_per_basket |-> Divide(a.instore_discount, a.baskets),
       campaign_coupon_discount_per_basket |-> Divide(a.campaign_coupon_discount, a.baskets),
       manuf_coupon_discount_per_basket |-> Divide(a.manuf_coupon_discount, a.baskets),
       total_coupon_discount_per_basket |-> Divide(a.total_coupon_discount, a.baskets),
       amount_paid_per_basket |-> Divide(a.amount_paid, a.baskets),
       baskets_with_instore_discount_per_baskets |-> Divide(a.baskets_with_instore_discount, a.baskets),
       baskets_with_campaign_coupon_discount_per_baskets |-> Divide(a.baskets_with_campaign_coupon_discount, a.baskets),
       baskets_with_manuf_coupon_discount_per_baskets |-> Divide(a.baskets_with_manuf_coupon_discount, a.baskets),
       baskets_with_total_coupon_discount_per_baskets |-> Divide(a.baskets_with_total_coupon_discount, a.baskets),
       line_items_per_product |-> Divide(a.line_items, a.products),
       amount_list_per_product |-> Divide(a.amount_list, a.products),
       instore_discount_per_product |-> Divide(a.instore_discount, a.products),
       campaign_coupon_discount_per_product |-> Divide(a.campaign_coupon_discount, a.products),
       manuf_coupon_discount_per_product |-> Divide(a.manuf_coupon_discount, a.products),
       total_coupon_discount_per_product |-> Divide(a.total_coupon_discount, a.products),
       amount_paid_per_product |-> Divide(a.amount_paid, a.products),
       products_with_instore_discount_per_product |-> Divide(a.products_with_instore_discount, a.products),
       products_with_campaign_coupon_discount_per_product |-> Divide(a.products_with_campaign_coupon_discount, a.products),
       products_with_manuf_coupon_discount_per_product |-> Divide(a.products_with_manuf_coupon_discount, a.products),
       products_with_total_coupon_discount_per_product |-> Divide(a.products_with_total_coupon_discount, a.products),
       amount_list_per_line_item |-> Divide(a.amount_list, a.line_items),
       instore_discount_per_line_item |-> Divide(a.instore_discount, a.line_items),
       campaign_coupon_discount_per_line_item |-> Divide(a.campaign_coupon_discount, a.line_items),
       manuf_coupon_discount_per_line_item |-> Divide(a.manuf_coupon_discount, a.line_items),
       total_coupon_discount_per_line_item |-> Divide(a.total_coupon_discount, a.line_items),
       amount_paid_per_line_item |-> Divide(a.amount_paid, a.line_items),
       products_with_instore_discount_per_line_item |-> Divide(a.products_with_instore_discount, a.line_items),
       products_with_campaign_coupon_discount_per_line_item |-> Divide(a.products_with_campaign_coupon_discount, a.line_items),
       products_with_manuf_coupon_discount_per_line_item |-> Divide(a.products_with_manuf_coupon_discount, a.line_items),
       products_with_total_coupon_discount_per_line_item |-> Divide(a.products_with_total_coupon_discount, a.line_items),
       campaign_coupon_discount_to_amount_list |-> Divide(a.campaign_coupon_discount, a.amount_list),
       manuf_coupon_discount_to_amount_list |-> Divide(a.manuf_coupon_discount, a.amount_list),
       total_coupon_discount_to_amount_list |-> Divide(a.total_coupon_discount, a.amount_list),
       amount_paid_to_amount_list |-> Divide(a.amount_paid, a.amount_list) ]

\* days-since metrics of one group: min('{max_day}' - case when X > 0 then day
\* else '{min_day}' end), with min_day and max_day the adjusted window bounds
\* and the subtraction taken as the difference of the two dates in days
DaysSince(g, cond, w) ==
  IF g = {} THEN Null
  ELSE Whole(Min({ w.max_day - (IF r[cond] > 0 THEN r.day ELSE w.min_day) : r \in g }))

DaysSinceRow(g, w) ==
  [ days_since_instore_discount |-> DaysSince(g, "instore_discount", w),
    days_since_campaign_coupon_discount |-> DaysSince(g, "campaign_coupon_discount", w),
    days_since_manuf_coupon_discount |-> DaysSince(g, "manuf_coupon_discount", w),
    days_since_total_coupon_discount |-> DaysSince(g, "total_coupon_discount", w) ]

\* variant of InWindow: the first day of the window is left out
InWindow_after_start(d, w) == { r \in d : w.min_day < r.day /\ r.day <= w.max_day }

\* df.filter("day between '{min_day}' and '{max_day}'")
InWindow(d, w) == { r \in d : w.min_day <= r.day /\ r.day <= w.max_day }

\* df.filter("day <= '{max_day}'")
UpToEnd(d, w) == { r \in d : r.day <= w.max_day }

\* .groupBy(grouping_fields): the rows of d with grouping key k
Group(d, k, include_commodity) ==
  { r \in d : GroupKey(r, include_commodity) = k }

GroupKeys(d, include_commodity) == { GroupKey(r, include_commodity) : r \in d }

\* summary_df: one row per grouping key with a transaction inside the window
summary_df(d, include_commodity, window, w) ==
  LET f == InWindow(d, w)
  IN { [key |-> k,
        m |-> SummaryRow(Group(f, k, include_commodity), window,
                         (w.max_day - w.min_day) + 1)] :
       k \in GroupKeys(f, include_commodity) }

\* dayssince_df: one row per grouping key with a transaction up to the window end
dayssince_df(d, include_commodity, w) ==
  LET f == UpToEnd(d, w)
  IN { [key |-> k, m |-> DaysSinceRow(Group(f, k, include_commodity), w)] :
       k \in GroupKeys(f, include_commodity) }

\* the metric columns of summary_df (for each window) and of dayssince_df
summary_columns == [window \in Windows |-> DOMAIN SummaryRow({}, window, 1)]
dayssince_columns == DOMAIN DaysSinceRow({}, [min_day |-> 0, max_day |-> 0])

\* the metrics the left outer join gives key k: those of its row of t, or NULLs
Matched(k, t, columns) ==
  IF \E x \in t : x.key = k
  THEN (CHOOSE x \in t : x.key = k).m
  ELSE [c \in columns |-> Null]

\* anchor_df.join(summary_df, 'leftouter').join(dayssince_df, 'leftouter')
ret_df(anchor, summary, dayssince, window) ==
  { [key |-> k,
     m |-> Matched(k, summary, summary_columns[window]) @@
           Matched(k, dayssince, dayssince_columns)] : k \in anchor }

\* variant of renamed: the window suffix is left out
renamed_without_window(c, include_commodity, window) ==
  c \o grouping_suffix(include_commodity)

\* the name the rename loop gives metric column c
renamed(c, include_commodity, window) ==
  c \o grouping_suffix(include_commodity) \o window_suffix(window)

\* the rename loop over ret_df.columns: for each grouping mode and window, the
\* new name of every metric column, and the column each new name comes from
ret_columns ==
  [include_commodity \in BOOLEAN |-> [window \in Windows |->
     { renamed(c, include_commodity, window) :
         c \in summary_columns[window] \cup dayssince_columns }]]

renamed_from ==
  [include_commodity \in BOOLEAN |-> [window \in Windows |->
     [n \in ret_columns[include_commodity][window] |->
        CHOOSE c \in summary_columns[window] \cup dayssince_columns :
          renamed(c, include_commodity, window) = n]]]

\* the rename loop over one row: every metric column cast to double and renamed
RenameRow(m, include_commodity, window) ==
  [n \in ret_columns[include_commodity][window] |->
     CastDouble(m[renamed_from[include_commodity][window][n]])]

\* variant of StepsToDispatch: the windowed summary is built before the chain
StepsToDispatch_summary_first == <<"anchor_df", "min_max_day", "summary_df">>

\* the steps get_features has run when it reaches the if/elif chain on `window`,
\* and the steps that follow the chain
StepsToDispatch == <<"anchor_df", "min_max_day">>
StepsAfterDispatch == <<"summary_df", "dayssince_df", "ret_df", "rename">>

\* the steps that aggregate over transaction data
Aggregations == {"min_max_day", "summary_df", "dayssince_df"}

UnknownWindowError == "Exception: unknown window definition"
NoneArithmeticError == "TypeError: unsupported operand type(s) for -: NoneType and timedelta"

Raised(include_commodity, window, error) ==
  [status |-> "raised", include_commodity |-> include_commodity,
   window |-> window, error |-> error, trace |-> StepsToDispatch]

\* get_features(df, include_commodity, window): the exception the call raises, or
\* the dataframe it returns.  A Spark dataframe is a query over its sources: the
\* returned one is held as the anchor keys read from the global, the adjusted
\* window and the renaming, over the rows of df; collect gives its rows.
get_features(d, include_commodity, window) ==
  LET mm == min_max_day(d)
  IN IF unknown_window(window)
     THEN Raised(include_commodity, window, UnknownWindowError)
     ELSE IF mm = Null
     THEN Raised(include_commodity, window, NoneArithmeticError)
     ELSE
       LET w == adjust_days(window, mm[2])
       IN [status |-> "returned", include_commodity |-> include_commodity,
           window |-> window,
           anchor |-> anchor_df(include_commodity),
           min_day |-> w.min_day, max_day |-> w.max_day,
           days_in_window |-> (w.max_day - w.min_day) + 1,
           trace |-> StepsToDispatch \o StepsAfterDispatch]

\* the columns of a returned dataframe that are not grouping fields
columns(ret) == ret_columns[ret.include_commodity][ret.window]

\* the rows of a returned dataframe over the rows d of df
collect(d, ret) ==
  LET w == [min_day |-> ret.min_day, max_day |-> ret.max_day]
      joined == ret_df(ret.anchor,
                       summary_df(d, ret.include_commodity, ret.window, w),
                       dayssince_df(d, ret.include_commodity, w), ret.window)
  IN { [key |-> x.key, m |-> RenameRow(x.m, ret.include_commodity, ret.window)] :
       x \in joined }

(***************************************************************************)
(* The notebook as a state machine.                                        *)
(***************************************************************************)
Tables == TablesUpTo(AllRows, MaxRows)

\* the tables the notebook may bind `transactions` to: the dataset passed as
\* df itself, or the purchase of the product of commodity 1 by one household
GlobalTables(d) ==
  {d} \cup { {Row(h, p, DayLast)} :
               h \in Households, p \in { q \in Products : q.commodity_desc = 1 } }

NotCalled == [status |-> "none"]

\* transactions_adj before its CREATE TABLE has run
NotCreated == [created |-> FALSE, rows |-> {}]

Init ==
  /\ df \in Tables
  /\ transactions \in GlobalTables(df)
  /\ last = NotCalled
  /\ transactions_raw = {}
  /\ transactions_adj = NotCreated

\* a notebook cell calls get_features(df, include_commodity, window)
GetFeatures(include_commodity, window) ==
  /\ last' = get_features(df, include_commodity, window)
  /\ UNCHANGED <<df, transactions, transactions_raw, transactions_adj>>

\* a notebook cell rebinds the global name `transactions`
Rebind(t) ==
  /\ t # transactions
  /\ transactions' = t
  /\ UNCHANGED <<df, last, transactions_raw, transactions_adj>>

Next ==
  \/ \E ic \in BOOLEAN, window \in WindowArgs : GetFeatures(ic, window)
  \/ \E t \in GlobalTables(df) : Rebind(t)

Spec == Init /\ [][Next]_vars

(***************************************************************************)
(* The data preparation notebook as a state machine: the raw table is      *)
(* loaded, then the cell that creates transactions_adj runs.               *)
(***************************************************************************)
RawTables == TablesUpTo(RawRows, MaxRows)

InitPrep ==
  /\ transactions_raw \in RawTables
  /\ transactions_adj = NotCreated
  /\ df = {} /\ transactions = {} /\ last = NotCalled

\* DROP TABLE IF EXISTS transactions_adj; CREATE TABLE transactions_adj AS SELECT
CreateTransactionsAdj ==
  /\ transactions_adj' =
       [created |-> TRUE, rows |-> { Adjusted(r) : r \in transactions_raw }]
  /\ UNCHANGED <<df, transactions, last, transactions_raw>>

NextPrep == CreateTransactionsAdj

SpecPrep == InitPrep /\ [][NextPrep]_vars

(***************************************************************************)
(* The feature notebook over datasets with several baskets a day and all   *)
(* four discount types.                                                    *)
(***************************************************************************)
BasketTables == TablesUpTo(BasketRows, MaxRows)

\* the tables the notebook may bind `transactions` to: the dataset passed as
\* df itself, or the purchase of product 11 by household 1
BasketGlobals(d) ==
  {d} \cup { {Row(1, p, DayLast)} : p \in { q \in Products : q.commodity_desc = 1 } }

InitBaskets ==
  /\ df \in BasketTables
  /\ transactions \in BasketGlobals(df)
  /\ last = NotCalled
  /\ transactions_raw = {}
  /\ transactions_adj = NotCreated

NextBaskets ==
  \/ \E ic \in BOOLEAN, window \in WindowArgs : GetFeatures(ic, window)
  \/ \E t \in BasketGlobals(df) : Rebind(t)

SpecBaskets == InitBaskets /\ [][NextBaskets]_vars

(***************************************************************************)
(* Vocabulary of the properties.                                           *)
(***************************************************************************)
Called == last.status # "none"
Returned == last.status = "returned"
RaisedError == last.status = "raised"

\* the rows of the dataframe the last call returned
rows == collect(df, last)

\* the adjusted window of the last call
LastWindow == [min_day |-> last.min_day, max_day |-> last.max_day]

\* the rows of df with grouping key k inside the window of the last call
ActiveRows(k) == Group(InWindow(df, LastWindow), k, last.include_commodity)

\* the maximum day of the input
D == Max({ r.day : r \in df })

IsNullOrZero(v) == v = Null \/ v[1] = 0
NullAsZero(v) == IF v = Null THEN Whole(0) ELSE v

Range(seq) == { seq[i] : i \in DOMAIN seq }

\* the value of metric column c in row x of the last result
Metric(x, c) == x.m[renamed(c, last.include_commodity, last.window)]

\* the rows of df with grouping key k and start <= day <= end
WindowRows(k) ==
  { r \in df : /\ r.household_key = k[1]
               /\ last.include_commodity => r.commodity_desc = k[2]
               /\ last.min_day <= r.day /\ r.day <= last.max_day }

\* the rows of df with grouping key k and day <= end
LifetimeRows(k) ==
  { r \in df : /\ r.household_key = k[1]
               /\ last.include_commodity => r.commodity_desc = k[2]
               /\ r.day <= last.max_day }

\* the grouping keys of df
KeysOfDf ==
  { IF last.include_commodity THEN <<r.household_key, r.commodity_desc>>
    ELSE <<r.household_key>> : r \in df }

\* the sum of field over the line items R
RECURSIVE LineTotal(_, _)
LineTotal(R, field) ==
  IF R = {} THEN 0
  ELSE LET r == CHOOSE z \in R : TRUE IN r[field] + LineTotal(R \ {r}, field)

\* the rows of summary_df of the last call
summary_rows ==
  summary_df(df, last.include_commodity, last.window, LastWindow)

DiscountTypes ==
  {"instore_discount", "campaign_coupon_discount", "manuf_coupon_discount",
   "total_coupon_discount"}

MoneyColumns ==
  {"amount_list", "instore_discount", "campaign_coupon_discount",
   "manuf_coupon_discount", "total_coupon_discount", "amount_paid"}

\* column name n without the grouping and window suffix of a call
BaseName(n, include_commodity, window) ==
  SubSeq(n, 1, Len(n) - Len(renamed("", include_commodity, window)))

BaseNames(include_commodity, window) ==
  { BaseName(n, include_commodity, window) :
      n \in ret_columns[include_commodity][window] }

(***************************************************************************)
(* C1: for every valid window and both grouping modes the returned         *)
(* dataframe has exactly one row per distinct grouping key of df: its keys *)
(* are the grouping keys of df and its row count is their number.          *)
(***************************************************************************)
C1_OneRowPerKeyOfDf ==
  Returned =>
    /\ { x.key : x \in rows } = GroupKeys(df, last.include_commodity)
    /\ Cardinality(rows) = Cardinality(GroupKeys(df, last.include_commodity))

(***************************************************************************)
(* C2: a grouping key of df without a transaction inside the window still *)
(* has a row in the result, and every windowed summary count, sum and      *)
(* ratio of that row is NULL or zero.                                      *)
(***************************************************************************)
C2_InactiveKeyHasNullRow ==
  Returned =>
    \A k \in GroupKeys(df, last.include_commodity) :
      ActiveRows(k) = {} =>
        \E x \in rows :
          /\ x.key = k
          /\ \A c \in summary_columns[last.window] :
               IsNullOrZero(x.m[renamed(c, last.include_commodity, last.window)])

(***************************************************************************)
(* C3: with D the maximum day of df the window is [D-29, D] for '30d',     *)
(* [D-59, D] for '60d', [D-89, D] for '90d' and [D-364, D-335] for '1yr',  *)
(* and days_in_window is 30, 60, 90 and 30, whatever the other days of df. *)
(***************************************************************************)
C3_WindowBounds ==
  Returned =>
    /\ last.window = "30d" =>
         last.min_day = D - 29 /\ last.max_day = D /\ last.days_in_window = 30
    /\ last.window = "60d" =>
         last.min_day = D - 59 /\ last.max_day = D /\ last.days_in_window = 60
    /\ last.window = "90d" =>
         last.min_day = D - 89 /\ last.max_day = D /\ last.days_in_window = 90
    /\ last.window = "1yr" =>
         /\ last.min_day = D - 364 /\ last.max_day = D - 335
         /\ last.days_in_window = 30

C3_Witness ==
  /\ Returned /\ last.window = "1yr"
  /\ last.min_day = D - 364 /\ last.max_day = D - 335
  /\ Cardinality({ r.day : r \in df }) = 2
  /\ \E r \in df : r.day < last.min_day

(***************************************************************************)
(* C4: a call whose window is none of '30d', '60d', '90d', '1yr' (the      *)
(* default None included) raises an error and returns no dataframe, for    *)
(* every df and both grouping modes.                                       *)
(***************************************************************************)
C4_UnknownWindowRaises ==
  (Called /\ last.window \notin Windows) =>
    /\ RaisedError
    /\ last.error = UnknownWindowError

C4_Witness ==
  /\ RaisedError /\ last.window = NoWindow /\ last.include_commodity
  /\ df # {}

(***************************************************************************)
(* C5: when the window is invalid no aggregate over the transaction data,  *)
(* the min/max-day scan included, has run before the error is raised.      *)
(* Amended: the min/max-day scan of df is the one aggregate that has run;  *)
(* the windowed summary, the days-since aggregation, the join and the      *)
(* renaming have not.                                                      *)
(***************************************************************************)
C5_NoAggregateBeforeRejection ==
  (RaisedError /\ last.error = UnknownWindowError) =>
    Range(last.trace) \cap Aggregations = {}

C5_OnlyDayScanBeforeRejection ==
  (RaisedError /\ last.error = UnknownWindowError) =>
    /\ Range(last.trace) \cap Aggregations = {"min_max_day"}
    /\ Range(last.trace) \cap Range(StepsAfterDispatch) = {}

C5_Witness ==
  /\ RaisedError /\ last.error = UnknownWindowError
  /\ last.window = "45d" /\ df # {}
  /\ "min_max_day" \in Range(last.trace)

(***************************************************************************)
(* C6: over a df without rows a call with a valid window raises an error   *)
(* instead of returning, and the error is not the unknown-window error.    *)
(***************************************************************************)
C6_EmptyDatasetRaises ==
  (Called /\ df = {} /\ last.window \in Windows) =>
    /\ RaisedError
    /\ last.error = NoneArithmeticError
    /\ last.error # UnknownWindowError

C6_Witness ==
  /\ RaisedError /\ df = {} /\ last.window = "1yr"
  /\ last.error = NoneArithmeticError

(***************************************************************************)
(* C7: get_features is a pure function of (df, include_commodity, window): *)
(* a call with the arguments of the call before it returns the same rows,  *)
(* whatever the global `transactions` holds at each call.                  *)
(***************************************************************************)
C7_SameArgumentsSameResult ==
  [][ ( /\ last.status = "returned" /\ last'.status = "returned"
        /\ last'.include_commodity = last.include_commodity
        /\ last'.window = last.window )
      => collect(df', last') = collect(df, last) ]_vars

(***************************************************************************)
(* C8: the household-level monetary sums equal the totals of the           *)
(* per-category sums of the same household and window (NULL counted as 0), *)
(* and a household whose transactions span k categories has k rows when    *)
(* grouping by category.                                                   *)
(***************************************************************************)
\* the rows of household h in the result of the by-category call
CategoryRows(h, window) ==
  { y \in collect(df, get_features(df, TRUE, window)) : y.key[1] = h }

RECURSIVE ColumnTotal(_, _)
ColumnTotal(R, n) ==
  IF R = {} THEN 0
  ELSE LET y == CHOOSE z \in R : TRUE
       IN NullAsZero(y.m[n])[1] + ColumnTotal(R \ {y}, n)

C8_CategorySumsTotalHousehold ==
  (Returned /\ ~last.include_commodity) =>
    /\ \A x \in rows : \A c \in MoneyColumns :
         NullAsZero(x.m[renamed(c, FALSE, last.window)])
           = Whole(ColumnTotal(CategoryRows(x.key[1], last.window),
                               renamed(c, TRUE, last.window)))
    /\ \A h \in { r.household_key : r \in df } :
         Cardinality(CategoryRows(h, last.window))
           = Cardinality({ r.commodity_desc : r \in Group(df, <<h>>, FALSE) })

(***************************************************************************)
(* C9: the metric columns of two calls that differ in window or in         *)
(* grouping mode have no name in common.                                   *)
(***************************************************************************)
C9_ColumnNamesDisjoint ==
  Returned =>
    \A ic \in BOOLEAN, window \in Windows :
      LET other == get_features(df, ic, window)
      IN (ic # last.include_commodity \/ window # last.window) =>
           columns(last) \cap columns(other) = {}

C9_Witness ==
  /\ Returned /\ last.include_commodity /\ last.window = "30d"
  /\ "products_per_day_30d_cmd_30d" \in columns(last)
  /\ "baskets_per_day_cmd_30d" \in columns(last)

(***************************************************************************)
(* C10: every metric column is named <base><grouping suffix><window        *)
(* suffix> with a base that does not depend on the window: without the two *)
(* suffixes the column names are the same set for all four windows and     *)
(* both grouping modes.                                                    *)
(***************************************************************************)
C10_BaseNamesIndependentOfWindow ==
  Returned =>
    \A ic \in BOOLEAN, window \in Windows :
      BaseNames(ic, window) = BaseNames(last.include_commodity, last.window)

(***************************************************************************)
(* C11: every row of transactions_adj satisfies                            *)
(* amount_paid = amount_list - instore_discount - total_coupon_discount,   *)
(* whatever the raw sales_value, retail_disc, coupon_disc and              *)
(* coupon_match_disc of its line item, a non-zero coupon_match_disc        *)
(* included.                                                               *)
(***************************************************************************)
C11_AmountPaidIdentity ==
  transactions_adj.created =>
    \A a \in transactions_adj.rows :
      a.amount_paid =
        Minus(Minus(a.amount_list, a.instore_discount), a.total_coupon_discount)

(***************************************************************************)
(* C12: for every grouping key with a transaction of day start <= d <= end *)
(* the windowed aggregates are those of exactly these transactions: days   *)
(* the number of distinct days, baskets the number of distinct basket ids, *)
(* products the number of line items (each has a product id), line_items   *)
(* the row count, every monetary sum the sum of its field.  This holds of  *)
(* the row summary_df has for the key and of the row of the result, when   *)
(* the result has a row for the key.  Over one line item the sums are the  *)
(* amounts of the line item, baskets_per_day is 1 and, for '30d',          *)
(* days_to_days_in_set is 1/30.                                            *)
(***************************************************************************)
\* the aggregates m(c) are the reference values over the line items R
ReferenceAggregates(m(_), R) ==
  /\ m("days") = Whole(Cardinality({ r.day : r \in R }))
  /\ m("baskets") = Whole(Cardinality({ r.basket_id : r \in R }))
  /\ m("products") = Whole(Cardinality(R))
  /\ m("line_items") = Whole(Cardinality(R))
  /\ \A c \in MoneyColumns : m(c) = Whole(LineTotal(R, c))

C12_WindowedAggregates ==
  Returned =>
    /\ LET summary == summary_rows
       IN \A k \in KeysOfDf :
            WindowRows(k) # {} =>
              /\ Cardinality({ y \in summary : y.key = k }) = 1
              /\ \A y \in summary :
                   y.key = k =>
                     LET m(c) == y.m[c] IN ReferenceAggregates(m, WindowRows(k))
    /\ \A x \in rows :
         WindowRows(x.key) # {} =>
           /\ LET m(c) == Metric(x, c) IN ReferenceAggregates(m, WindowRows(x.key))
           /\ Cardinality(df) = 1 =>
                /\ \A r \in df, c \in MoneyColumns : Metric(x, c) = <<r[c], 1>>
                /\ Metric(x, "baskets_per_day") = <<1, 1>>
                /\ last.window = "30d" =>
                     Metric(x, "days_to_days_in_set") = <<1, 30>>

C12_Witness ==
  /\ Returned /\ last.window = "30d" /\ ~last.include_commodity
  /\ Cardinality(df) = 1
  /\ \E x \in rows :
       /\ WindowRows(x.key) = df
       /\ x.m["amount_list_30d"] = <<13, 1>>
       /\ x.m["manuf_coupon_discount_30d"] = <<2, 1>>
       /\ x.m["baskets_per_day_30d"] = <<1, 1>>
       /\ x.m["days_to_days_in_set_30d"] = <<1, 30>>

(***************************************************************************)
(* C13: for every grouping key with activity in the window and each of the *)
(* four discount types X, days_with_X, baskets_with_X, products_with_X and *)
(* line_items_with_X are the numbers of distinct days, distinct baskets,   *)
(* distinct products and line items among the key's in-window transactions *)
(* with X > 0; when there is none, all four are the count 0.               *)
(***************************************************************************)
C13_AdoptionCounts ==
  Returned =>
    \A x \in rows :
      WindowRows(x.key) # {} =>
        \A X \in DiscountTypes :
          LET W == { r \in WindowRows(x.key) : r[X] > 0 }
          IN /\ Metric(x, "days_with_" \o X) = Whole(Cardinality({ r.day : r \in W }))
             /\ Metric(x, "baskets_with_" \o X)
                  = Whole(Cardinality({ r.basket_id : r \in W }))
             /\ Metric(x, "products_with_" \o X)
                  = Whole(Cardinality({ r.product_id : r \in W }))
             /\ Metric(x, "line_items_with_" \o X) = Whole(Cardinality(W))

(***************************************************************************)
(* C14: for every grouping key and discount type X, when the key has a     *)
(* transaction with day <= window end and X > 0, days_since_X is the       *)
(* window end minus the latest such day, also when that day is before the  *)
(* window start and when the key has transactions without the discount.    *)
(***************************************************************************)
C14_DaysSinceLatestDiscount ==
  Returned =>
    \A x \in rows, X \in DiscountTypes :
      LET L == { r \in LifetimeRows(x.key) : r[X] > 0 }
      IN L # {} =>
           Metric(x, "days_since_" \o X)
             = Whole(last.max_day - Max({ r.day : r \in L }))

(***************************************************************************)
(* C15: for every grouping key with transactions of day <= window end,     *)
(* none of them with X > 0, days_since_X is not NULL but the span of the   *)
(* dataset: the maximum day of df minus its minimum day, or the window end *)
(* minus the minimum day of df (the start of history).                     *)
(***************************************************************************)
C15_DaysSinceSentinelIsSpan ==
  Returned =>
    \A x \in rows, X \in DiscountTypes :
      LET L == LifetimeRows(x.key)
          first == Min({ r.day : r \in df })
      IN (L # {} /\ \A r \in L : ~(r[X] > 0)) =>
           /\ Metric(x, "days_since_" \o X) # Null
           /\ \/ Metric(x, "days_since_" \o X) = Whole(D - first)
              \/ Metric(x, "days_since_" \o X) = Whole(last.max_day - first)

(***************************************************************************)
(* C16: for every grouping key with a transaction in the window,           *)
(* 1 <= days <= days_in_window, 1 <= line_items and, for each discount     *)
(* type X, 0 <= days_with_X <= days and 0 <= baskets_with_X <= baskets;    *)
(* so the per-day and per-line-item ratios have a non-zero denominator and *)
(* are defined, and days_to_days_in_set, days_with_X_per_days and          *)
(* baskets_with_X_per_baskets are at most 1.  This holds of the row        *)
(* summary_df has for the key and of the row of the result, when the       *)
(* result has a row for the key.                                           *)
(***************************************************************************)
IsCount(v) == v # Null /\ v[2] = 1 /\ v[1] >= 0
AtMostOne(v) == v # Null /\ v[1] >= 0 /\ v[1] <= v[2]

\* the metrics m(c) of one key respect the bounds
WithinBounds(m(_)) ==
  /\ IsCount(m("days")) /\ IsCount(m("baskets")) /\ IsCount(m("line_items"))
  /\ 1 <= m("days")[1] /\ m("days")[1] <= last.days_in_window
  /\ 1 <= m("line_items")[1]
  /\ m("baskets_per_day") # Null /\ m("line_items_per_day") # Null
  /\ \A c \in MoneyColumns :
       m(c \o "_per_day") # Null /\ m(c \o "_per_line_item") # Null
  /\ AtMostOne(m("days_to_days_in_set"))
  /\ \A X \in DiscountTypes :
       /\ IsCount(m("days_with_" \o X)) /\ IsCount(m("baskets_with_" \o X))
       /\ m("days_with_" \o X)[1] <= m("days")[1]
       /\ m("baskets_with_" \o X)[1] <= m("baskets")[1]
       /\ AtMostOne(m("days_with_" \o X \o "_per_days"))
       /\ AtMostOne(m("baskets_with_" \o X \o "_per_baskets"))

C16_BoundsOfActiveKeys ==
  Returned =>
    /\ LET summary == summary_rows
       IN \A k \in KeysOfDf :
            WindowRows(k) # {} =>
              \E y \in summary :
                y.key = k /\ LET m(c) == y.m[c] IN WithinBounds(m)
    /\ \A x \in rows :
         WindowRows(x.key) # {} => LET m(c) == Metric(x, c) IN WithinBounds(m)

C16_Witness ==
  /\ Returned /\ last.window = "60d" /\ ~last.include_commodity
  /\ \E x \in rows :
       /\ Cardinality(WindowRows(x.key)) = 2
       /\ x.m["days_60d"] = <<1, 1>> /\ x.m["baskets_60d"] = <<2, 1>>
       /\ x.m["days_with_total_coupon_discount_60d"] = <<1, 1>>
       /\ x.m["days_with_total_coupon_discount_per_days_60d"] = <<1, 1>>
       /\ x.m["baskets_with_instore_discount_per_baskets_60d"] = <<1, 2>>
       /\ x.m["days_to_days_in_set_60d"] = <<1, 60>>

====
